---- MODULE Spec2Model ----
(***************************************************************************)
(* AI City Companion backend (FastAPI + MongoDB).                          *)
(*                                                                         *)
(* The model covers the document store (users, routes, the places          *)
(* catalog) and the request handlers of routers/users.py,                  *)
(* routers/routes.py and routers/auth.py.  Every handler is an async       *)
(* coroutine: it can be interleaved with other requests at each `await`    *)
(* of a store call, so a handler is modelled as one action per awaited     *)
(* store call that reads or writes mutable data.  Reads of the places      *)
(* catalog (never written by a handler) and purely local computation are   *)
(* folded into the neighbouring step.                                      *)
(*                                                                         *)
(* BSON equality is type sensitive: an ObjectId never equals a string or   *)
(* an int.  Ids are therefore modelled as a pair (idType, id); a 24-digit  *)
(* hex string is abbreviated to a 2-digit one and an ObjectId is the       *)
(* number its hex digits denote.                                           *)
(***************************************************************************)
EXTENDS Integers, Sequences, FiniteSets, TLC

\* ------------------------------------------------------------------ bounds
\* Requests that may be in flight together under SpecConc and SpecRace.
MaxInFlight == 2
\* User documents ever inserted.
MaxUsers == 2
\* Route documents ever inserted.
MaxRoutes == 2
\* Under SpecConc a POST /routes arrives only while fewer routes were inserted.
MaxRoutesConc == 1

Slots == 1..MaxInFlight

\* Places in the catalog that a recommendation query runs against.
MaxCatalog == 8

\* Arguments of the functions of utils/gamification.py: entries of
\* visited_places, routes_completed, street_cred and level.
MaxVisited == 3
MaxCompleted == 4
MaxStreetCred == 2150
MaxLevel == 24

\* Places of a route handed to generate_route_narrative.
MaxNarrativePlaces == 4

\* Stops in a route the text-generation service suggests.
MaxStops == 3

\* --------------------------------------------------------------- constants
MOCK_EMAIL == "mock@example.com"
OTHER_EMAIL == "ann@example.com"
Emails == {MOCK_EMAIL, OTHER_EMAIL}

VISIT_POINTS == 10
ROUTE_POINTS == 25

\* HTTP status codes the handlers produce.
HTTP_200 == 200
HTTP_201 == 201
HTTP_400 == 400
HTTP_401 == 401
HTTP_403 == 403
HTTP_404 == 404
HTTP_422 == 422
HTTP_500 == 500
HTTP_503 == 503

\* The details of the 401 answers.
CREDENTIALS_DETAIL == "Could not validate credentials"
LOGIN_DETAIL == "Invalid email or password"

\* --------------------------------------------------------------- helpers
Range(s) == {s[i] : i \in 1..Len(s)}

RECURSIVE SumSeq(_)
SumSeq(s) == IF s = <<>> THEN 0 ELSE Head(s) + SumSeq(Tail(s))

\* Strings a client may send as placeId ("aa" stands for 24 hex digits;
\* "AA" is the same digits in upper case; "7" is not 24 hex digits).
PlaceIdStrings == {"aa", "AA", "bb", "cc", "7"}

\* bson.ObjectId.is_valid / ObjectId(str): 24 hex digits, either case.
ObjectIdIsValid(s) == s \in {"aa", "AA", "bb", "cc"}

\* ObjectId(s) for a valid s: the value of the hex digits (case-insensitive).
ObjectIdOf(s) ==
    CASE s \in {"aa", "AA"} -> 170
      [] s = "bb" -> 187
      [] s = "cc" -> 204
      [] OTHER -> -1

\* The places collection.  seed_places.py inserts documents without _id, so
\* the driver gives them ObjectIds; models/place.py declares the id as an
\* int.  The catalog holds documents of both kinds.
PlaceDocs ==
    { [idType |-> "ObjectId", id |-> 170, walking_time |-> 5, driving_time |-> 2],
      [idType |-> "ObjectId", id |-> 187, walking_time |-> 8, driving_time |-> 3],
      [idType |-> "int", id |-> 1, walking_time |-> 5, driving_time |-> 2],
      [idType |-> "int", id |-> 2, walking_time |-> 8, driving_time |-> 3] }

\* collection.find_one({"_id": v}) on places: BSON compares type and value.
FindPlace(idType, id) == {p \in PlaceDocs : p.idType = idType /\ p.id = id}

\* ------------------------------------------------------------------ state
VARIABLES
    users,      \* users collection: sequence of documents, _id = index
    routes,     \* routes collection: set of documents
    nextRoute,  \* number of route documents inserted so far
    reqs,       \* per slot: the request being handled, its locals, and
                \* `wrote`: whether it has inserted, updated or deleted a
                \* document so far
    call        \* a call of a function of utils/: its arguments, its
                \* position and its result

vars == <<users, routes, nextRoute, reqs, call>>

NoUser == [id |-> 0, street_cred |-> 0, visited_places |-> <<>>]

MockPreferences ==
    [mood |-> <<>>, interests |-> <<>>, pace |-> "moderate",
     budget |-> "moderate", atmosphere |-> <<>>]

SignupPreferences ==
    [mood |-> <<>>, interests |-> <<>>, pace |-> "None",
     budget |-> "None", atmosphere |-> <<>>]

\* A bearer token as the server sees it: whether it parses as a JWT, whether
\* its signature verifies under settings.jwt_secret, whether its "exp" lies
\* ahead, and its "sub" claim ("none": the payload has no "sub").
NoToken == [form |-> "absent", sig |-> "none", exp |-> "none", sub |-> "none"]

IdleReq ==
    [pc |-> "idle", kind |-> "none", cred |-> "none", placeId |-> "",
     has_place_ids |-> FALSE, place_ids |-> <<>>, route_id |-> 0,
     email |-> "", name |-> "", password |-> "", token |-> NoToken,
     db |-> TRUE, prefs |-> MockPreferences,
     user |-> NoUser, routes_count |-> 0, status |-> 0, detail |-> "",
     wrote |-> FALSE]

\* No function of utils/ is being called.
NoCall == [fn |-> "none"]

Init ==
    /\ users = <<>>
    /\ routes = {}
    /\ nextRoute = 0
    /\ reqs = [r \in Slots |-> IdleReq]
    /\ call = NoCall

\* ------------------------------------------------------- pure functions
\* utils/gamification.py calculate_street_cred: visited_places is the LIST
\* of place ids, routes_completed a count.
calculate_street_cred_routes_only(visited_places, routes_completed) ==
    routes_completed * ROUTE_POINTS

calculate_street_cred(visited_places, routes_completed) ==
    Len(visited_places) * VISIT_POINTS + routes_completed * ROUTE_POINTS

\* utils/gamification.py calculate_level: math.floor(street_cred / 100) + 1.
LEVEL_STEP == 100

calculate_level_rounding(street_cred) == ((street_cred + 50) \div LEVEL_STEP) + 1

calculate_level(street_cred) == (street_cred \div LEVEL_STEP) + 1

\* utils/gamification.py get_level_title: the if / elif chain.
get_level_title_gap(level) ==
    IF level = 1 THEN "Novice Explorer"
    ELSE IF 2 <= level /\ level <= 2 THEN "Local Wanderer"
    ELSE IF 4 <= level /\ level <= 6 THEN "City Connoisseur"
    ELSE IF 7 <= level /\ level <= 10 THEN "Urban Legend"
    ELSE IF 11 <= level /\ level <= 15 THEN "Master Navigator"
    ELSE IF 16 <= level /\ level <= 20 THEN "City Sage"
    ELSE "Legendary Explorer"

get_level_title(level) ==
    IF level = 1 THEN "Novice Explorer"
    ELSE IF 2 <= level /\ level <= 3 THEN "Local Wanderer"
    ELSE IF 4 <= level /\ level <= 6 THEN "City Connoisseur"
    ELSE IF 7 <= level /\ level <= 10 THEN "Urban Legend"
    ELSE IF 11 <= level /\ level <= 15 THEN "Master Navigator"
    ELSE IF 16 <= level /\ level <= 20 THEN "City Sage"
    ELSE "Legendary Explorer"

\* --------------------------------------------------------- request inputs
\* The Authorization header of a request: absent, a token that does not
\* verify, or a token that does.
Credentials == {"none", "invalid", "valid"}

\* The "sub" claims a token may carry: none, the hex id of a user ("1" is
\* the first document inserted, "f" an id no document has), or a string
\* that is no ObjectId.
Subjects == {"none", "1", "2", "3", "f", "zz"}

\* ObjectId(user_id) of get_current_user raises for a string that is not 24
\* hex digits.
UserIdIsValid(s) == s \in {"1", "2", "3", "f"}

UserIdOf(s) ==
    CASE s = "1" -> 1
      [] s = "2" -> 2
      [] s = "3" -> 3
      [] s = "f" -> 15
      [] OTHER -> -1

\* The bearer tokens a client may present: a string that is no JWT, or a JWT
\* signed with the server's secret or with another one, whose "exp" is
\* ahead, past or absent.
Tokens ==
    { [form |-> "garbage", sig |-> "none", exp |-> "none", sub |-> "none"] } \cup
    [form : {"jwt"}, sig : {"ours", "other"}, exp : {"future", "past", "none"},
     sub : Subjects]

\* Passwords a client may send to login; signup registers "pw1".
Passwords == {"pw1", "pw2"}

\* auth/utils.py decode_access_token: jwt.decode verifies the format, the
\* HS256 signature and "exp" (when present); any JWTError gives None.
NoPayload == [ok |-> FALSE, sub |-> "none"]

decode_access_token_ignoring_exp(token) ==
    IF token.form = "jwt" /\ token.sig = "ours"
    THEN [ok |-> TRUE, sub |-> token.sub]
    ELSE NoPayload

decode_access_token(token) ==
    IF token.form = "jwt" /\ token.sig = "ours" /\ token.exp # "past"
    THEN [ok |-> TRUE, sub |-> token.sub]
    ELSE NoPayload

\* place_ids of a POST /routes body; has_place_ids = FALSE is a body without
\* the field (RouteBase.place_ids defaults to None).
RouteBodies ==
    { [has_place_ids |-> FALSE, place_ids |-> <<>>] } \cup
    { [has_place_ids |-> TRUE, place_ids |-> ids] :
        ids \in { <<>>, <<1>>, <<1, 2>>, <<2, 1, 2>>, <<1, 3>>, <<3, 2>>, <<1, 2, 3>> } }

\* Names a client may send (PUT /users/profile, POST /auth/signup).
Names == {"Mock User", "Ann"}

\* Bodies of PUT /users/preferences (PreferencesUpdateRequest defaults, or
\* every field given).
PreferenceBodies ==
    { SignupPreferences,
      [mood |-> <<"relaxed">>, interests |-> <<"coffee">>, pace |-> "slow",
       budget |-> "budget", atmosphere |-> <<"cozy">>] }

\* ------------------------------------------------------- store queries
\* db.users.find_one({"email": email}): the matching documents; find_one
\* returns one of them (natural order is not guaranteed by the store).
UsersByEmail(email) == {i \in 1..Len(users) : users[i].email = email}

\* routes_collection.count_documents({"user_id": user_id})
CountRoutes(user_id) == Cardinality({d \in routes : d.user_id = user_id})

\* delete_route / routes_collection.find_one({"_id": route_id}) with
\* route_id: str.  route_id is the string whose hex digits denote the number
\* `route_id`; the query value is a BSON string.
RouteIdMatches_ObjectId(d, route_id) == d.idType = "ObjectId" /\ d.id = route_id

RouteIdMatches(d, route_id) == d.idType = "string" /\ d.id = route_id

\* auth/utils.py hash_password: pwd_context.hash(password), an argon2 hash
\* (the salt is left out: only verification against a secret matters).
hash_password(password) == [scheme |-> "argon2", secret |-> password]

\* The literal "mock_hash" that get_or_create_mock_user stores: a string in
\* the format of no scheme known to the CryptContext.
MOCK_HASH == [scheme |-> "unidentified", secret |-> "mock_hash"]

\* auth/utils.py verify_password: pwd_context.verify(plain, hashed).  passlib
\* identifies the scheme of the stored hash first and raises UnknownHashError
\* for a string of no configured scheme.
verify_password(plain_password, hashed_password) ==
    IF hashed_password.scheme # "argon2" THEN "raise"
    ELSE IF hashed_password.secret = plain_password THEN "true" ELSE "false"

\* A fresh user document of get_or_create_mock_user.
MockUserDoc ==
    [name |-> "Mock User", email |-> MOCK_EMAIL, password_hash |-> MOCK_HASH,
     street_cred |-> 0,
     visited_places |-> <<>>, preferences |-> MockPreferences]

\* A fresh user document of signup.
SignupUserDoc(name, email, password) ==
    [name |-> name, email |-> email, password_hash |-> hash_password(password),
     street_cred |-> 0,
     visited_places |-> <<>>, preferences |-> SignupPreferences]

\* UserInDB(**user_data): the handler's private copy of the document.
Snapshot(i) ==
    [id |-> i, street_cred |-> users[i].street_cred,
     visited_places |-> users[i].visited_places]

\* ------------------------------------------------------------- requests
\* The load offered to the server: how many requests may be in flight, the
\* Authorization headers and bodies they carry, and up to how many stored
\* routes a further POST /routes still arrives.
Sequential ==
    [lim |-> 1, creds |-> Credentials, placeIds |-> PlaceIdStrings,
     bodies |-> RouteBodies, routes |-> MaxRoutes, db |-> {TRUE}]

\* Interleaved visit-place and create-route requests.  No handler of
\* routers/users.py or routers/routes.py reads the Authorization header and
\* the error paths write nothing, so the interleaved load carries one header
\* value and the ids of existing places.
Concurrent ==
    [lim |-> MaxInFlight, creds |-> {"none"}, placeIds |-> {"aa", "bb"},
     bodies |-> {[has_place_ids |-> TRUE, place_ids |-> <<1, 2>>]},
     routes |-> MaxRoutesConc, db |-> {TRUE}]

\* Interleaved signup requests and get-or-create of the mock user.
Racing ==
    [lim |-> MaxInFlight, creds |-> {"none"}, placeIds |-> {},
     bodies |-> {}, routes |-> 0, db |-> {TRUE}]

\* Signup, login and token-protected requests, one after the other, next to
\* the no-auth requests that create the mock user.
Authenticating ==
    [lim |-> 1, creds |-> {"none"}, placeIds |-> {},
     bodies |-> {}, routes |-> 0, db |-> {TRUE}]

\* The requests of a process whose connect_to_mongo failed at startup
\* (main.py startup_event logs the failure and serves on): get_database()
\* returns None to every request.
Disconnected ==
    [lim |-> MaxInFlight, creds |-> Credentials, placeIds |-> PlaceIdStrings,
     bodies |-> RouteBodies, routes |-> MaxRoutes, db |-> {FALSE}]

InFlight == {r \in Slots : reqs[r].pc # "idle"}

\* A new request takes the lowest free slot; at most load.lim are in flight.
CanStart(r, load) ==
    /\ reqs[r].pc = "idle"
    /\ \A q \in Slots : q < r => reqs[q].pc # "idle"
    /\ Cardinality(InFlight) < load.lim

\* The handler returns or raises: the response status is recorded and the
\* coroutine's locals are dropped (the id of the user it acted on is kept).
Finish(req, status) ==
    [req EXCEPT !.pc = "done", !.status = status,
                !.user = [NoUser EXCEPT !.id = req.user.id],
                !.routes_count = 0]

\* Each handler starts with db = get_database().  The handlers of
\* routers/users.py and routers/auth.py test `db is None` and raise 503;
\* those of routers/routes.py go on to `db.places` / `db.routes`, which
\* raises AttributeError on None: an unhandled error, answered 500.
\* load.db holds what get_database() can return: TRUE for a handle.

\* POST /api/v1/users/visit-place arrives.
post_visit_place(r, load) ==
    /\ CanStart(r, load)
    /\ \E cred \in load.creds, p \in load.placeIds, db \in load.db :
         LET req == [IdleReq EXCEPT !.kind = "visit_place", !.cred = cred,
                                    !.placeId = p, !.db = db]
         IN reqs' = [reqs EXCEPT ![r] =
                IF ~db THEN Finish(req, HTTP_503)
                ELSE [req EXCEPT !.pc = "find_user"]]
    /\ UNCHANGED <<users, routes, nextRoute>>

\* POST /api/v1/routes arrives; RouteCreate is validated before the handler
\* runs: a place_ids list shorter than min_length=2 is a 422, None passes.
post_routes(r, load) ==
    /\ CanStart(r, load)
    /\ nextRoute < load.routes
    /\ \E cred \in load.creds, body \in load.bodies, db \in load.db :
         LET req == [IdleReq EXCEPT !.kind = "create_route", !.cred = cred,
                                    !.has_place_ids = body.has_place_ids,
                                    !.place_ids = body.place_ids, !.db = db]
         IN reqs' = [reqs EXCEPT ![r] =
                IF body.has_place_ids /\ Len(body.place_ids) < 2
                THEN Finish(req, HTTP_422)
                ELSE IF ~db THEN Finish(req, HTTP_500)
                ELSE [req EXCEPT !.pc = "find_user"]]
    /\ UNCHANGED <<users, routes, nextRoute>>

\* DELETE /api/v1/routes/{route_id} arrives; route_id is the hex string of
\* the ObjectId of some route (inserted or not).
delete_routes(r, load) ==
    /\ CanStart(r, load)
    /\ \E cred \in load.creds, id \in 1..MaxRoutes, db \in load.db :
         LET req == [IdleReq EXCEPT !.kind = "delete_route", !.cred = cred,
                                    !.route_id = id, !.db = db]
         IN reqs' = [reqs EXCEPT ![r] =
                IF ~db THEN Finish(req, HTTP_500)
                ELSE [req EXCEPT !.pc = "find_user"]]
    /\ UNCHANGED <<users, routes, nextRoute>>

\* GET /api/v1/routes arrives.
get_routes(r, load) ==
    /\ CanStart(r, load)
    /\ \E cred \in load.creds, db \in load.db :
         LET req == [IdleReq EXCEPT !.kind = "list_routes", !.cred = cred,
                                    !.db = db]
         IN reqs' = [reqs EXCEPT ![r] =
                IF ~db THEN Finish(req, HTTP_500)
                ELSE [req EXCEPT !.pc = "find_user"]]
    /\ UNCHANGED <<users, routes, nextRoute>>

\* GET /api/v1/users/profile arrives.
get_profile(r, load) ==
    /\ CanStart(r, load)
    /\ \E cred \in load.creds, db \in load.db :
         LET req == [IdleReq EXCEPT !.kind = "profile", !.cred = cred,
                                    !.db = db]
         IN reqs' = [reqs EXCEPT ![r] =
                IF ~db THEN Finish(req, HTTP_503)
                ELSE [req EXCEPT !.pc = "find_user"]]
    /\ UNCHANGED <<users, routes, nextRoute>>

\* PUT /api/v1/users/profile arrives.
put_profile(r, load) ==
    /\ CanStart(r, load)
    /\ \E cred \in load.creds, name \in Names, db \in load.db :
         LET req == [IdleReq EXCEPT !.kind = "update_profile", !.cred = cred,
                                    !.name = name, !.db = db]
         IN reqs' = [reqs EXCEPT ![r] =
                IF ~db THEN Finish(req, HTTP_503)
                ELSE [req EXCEPT !.pc = "find_user"]]
    /\ UNCHANGED <<users, routes, nextRoute>>

\* PUT /api/v1/users/preferences arrives.
put_preferences(r, load) ==
    /\ CanStart(r, load)
    /\ \E cred \in load.creds, prefs \in PreferenceBodies, db \in load.db :
         LET req == [IdleReq EXCEPT !.kind = "update_preferences",
                                    !.cred = cred, !.prefs = prefs, !.db = db]
         IN reqs' = [reqs EXCEPT ![r] =
                IF ~db THEN Finish(req, HTTP_503)
                ELSE [req EXCEPT !.pc = "find_user"]]
    /\ UNCHANGED <<users, routes, nextRoute>>

\* POST /api/v1/auth/signup arrives (UserCreate already validated).
post_signup(r, load) ==
    /\ CanStart(r, load)
    /\ \E email \in Emails, db \in load.db :
         LET req == [IdleReq EXCEPT !.kind = "signup", !.email = email,
                                    !.name = "Ann", !.password = "pw1",
                                    !.db = db]
         IN reqs' = [reqs EXCEPT ![r] =
                IF ~db THEN Finish(req, HTTP_503)
                ELSE [req EXCEPT !.pc = "signup_find"]]
    /\ UNCHANGED <<users, routes, nextRoute>>

\* POST /auth/login arrives (UserLogin already validated).
post_login(r, load) ==
    /\ CanStart(r, load)
    /\ \E email \in Emails, password \in Passwords, db \in load.db :
         LET req == [IdleReq EXCEPT !.kind = "login", !.email = email,
                                    !.password = password, !.db = db]
         IN reqs' = [reqs EXCEPT ![r] =
                IF ~db THEN Finish(req, HTTP_503)
                ELSE [req EXCEPT !.pc = "login_find"]]
    /\ UNCHANGED <<users, routes, nextRoute>>

\* GET /auth/me arrives.  Depends(security): HTTPBearer answers 403 itself
\* when the request has no Authorization header; otherwise get_current_user
\* runs with the token.  db is what get_database() returns to this request
\* (None when connect_to_mongo failed at startup).
get_me(r, load) ==
    /\ CanStart(r, load)
    /\ \E token \in Tokens \cup {NoToken}, db \in BOOLEAN :
         LET req == [IdleReq EXCEPT !.kind = "me", !.token = token, !.db = db]
         IN reqs' = [reqs EXCEPT ![r] =
                IF token = NoToken
                THEN Finish(req, HTTP_403)
                ELSE [req EXCEPT !.pc = "authenticate"]]
    /\ UNCHANGED <<users, routes, nextRoute>>

\* The client takes the response; the slot is free again.
respond(r) ==
    /\ reqs[r].pc = "done"
    /\ reqs' = [reqs EXCEPT ![r] = IdleReq]
    /\ UNCHANGED <<users, routes, nextRoute>>

\* ------------------------------------------------------------- handlers
\* get_or_create_mock_user, first await: db.users.find_one({"email": ...}).
\* A missing document sends the coroutine on to insert_one.
get_or_create_mock_user(r) ==
    /\ reqs[r].pc = "find_user"
    /\ LET found == UsersByEmail(MOCK_EMAIL) IN
       \E i \in (IF found = {} THEN {0} ELSE found) :
         reqs' = [reqs EXCEPT ![r] =
                    IF i = 0
                    THEN [@ EXCEPT !.pc = "insert_user"]
                    ELSE [@ EXCEPT !.pc = "body", !.user = Snapshot(i)]]
    /\ UNCHANGED <<users, routes, nextRoute>>

\* get_or_create_mock_user, second await: db.users.insert_one(user_dict).
insert_mock_user(r) ==
    /\ reqs[r].pc = "insert_user"
    /\ Len(users) < MaxUsers
    /\ users' = Append(users, MockUserDoc)
    /\ reqs' = [reqs EXCEPT ![r] =
                  [@ EXCEPT !.pc = "body", !.wrote = TRUE,
                            !.user = [NoUser EXCEPT !.id = Len(users) + 1]]]
    /\ UNCHANGED <<routes, nextRoute>>

\* visit_place: `place_id in current_user.visited_places` compares strings.
AlreadyVisited(place_id, visited_places) == place_id \in Range(visited_places)

\* visit_place: the list written by $set is built from the handler's copy.
NewVisitedPlaces(current_user, place_id) ==
    Append(current_user.visited_places, place_id)

\* visit_place after get_or_create_mock_user.  ObjectId(place_id) raises for
\* a malformed id and the 404 for a missing place is raised inside the same
\* try block: `except Exception` turns both into a 400.
visit_place(r) ==
    /\ reqs[r].pc = "body"
    /\ reqs[r].kind = "visit_place"
    /\ LET req == reqs[r]
           place_id == req.placeId
           current_user == req.user
           invalid == ~ObjectIdIsValid(place_id)
           missing == FindPlace("ObjectId", ObjectIdOf(place_id)) = {}
       IN  IF invalid \/ missing
           THEN /\ reqs' = [reqs EXCEPT ![r] = Finish(req, HTTP_400)]
                /\ UNCHANGED users
           ELSE IF AlreadyVisited(place_id, current_user.visited_places)
           THEN /\ reqs' = [reqs EXCEPT ![r] = Finish(req, HTTP_200)]
                /\ UNCHANGED users
           ELSE /\ users' = [users EXCEPT ![current_user.id] =
                               [@ EXCEPT !.street_cred =
                                             current_user.street_cred + VISIT_POINTS,
                                         !.visited_places =
                                             NewVisitedPlaces(current_user, place_id)]]
                /\ reqs' = [reqs EXCEPT ![r] =
                              Finish([req EXCEPT !.wrote = TRUE], HTTP_200)]
    /\ UNCHANGED <<routes, nextRoute>>

\* create_route: places_collection.find_one({"_id": place_id}) with an int.
PlacesResolve(place_ids) ==
    \A k \in 1..Len(place_ids) : FindPlace("int", place_ids[k]) # {}

\* create_route: the route document built from the resolved places.
RouteDoc(id, user_id, place_ids) ==
    LET place_objects ==
          [k \in 1..Len(place_ids) |->
              CHOOSE p \in FindPlace("int", place_ids[k]) : TRUE]
    IN [idType |-> "ObjectId", id |-> id, user_id |-> user_id,
        place_ids |-> place_ids,
        total_walking_time |->
            SumSeq([k \in 1..Len(place_ids) |-> place_objects[k].walking_time]),
        total_driving_time |->
            SumSeq([k \in 1..Len(place_ids) |-> place_objects[k].driving_time])]

\* create_route after get_or_create_mock_user, up to insert_one of the route.
\* len(None) raises TypeError (an unhandled 500) when place_ids was omitted.
create_route(r) ==
    /\ reqs[r].pc = "body"
    /\ reqs[r].kind = "create_route"
    /\ LET req == reqs[r] IN
       IF ~req.has_place_ids
       THEN /\ reqs' = [reqs EXCEPT ![r] = Finish(req, HTTP_500)]
            /\ UNCHANGED <<routes, nextRoute>>
       ELSE IF Len(req.place_ids) < 2
       THEN /\ reqs' = [reqs EXCEPT ![r] = Finish(req, HTTP_400)]
            /\ UNCHANGED <<routes, nextRoute>>
       ELSE IF ~PlacesResolve(req.place_ids)
       THEN /\ reqs' = [reqs EXCEPT ![r] = Finish(req, HTTP_404)]
            /\ UNCHANGED <<routes, nextRoute>>
       ELSE /\ nextRoute < MaxRoutes
            /\ nextRoute' = nextRoute + 1
            /\ routes' = routes \cup
                           {RouteDoc(nextRoute + 1, req.user.id, req.place_ids)}
            /\ reqs' = [reqs EXCEPT ![r] =
                          [req EXCEPT !.pc = "count", !.wrote = TRUE]]
    /\ UNCHANGED users

\* create_route: routes_count = await count_documents({"user_id": ...}).
RoutesCount_before_insert(user_id) == CountRoutes(user_id) - 1

RoutesCount(user_id) == CountRoutes(user_id)

create_route_count(r) ==
    /\ reqs[r].pc = "count"
    /\ reqs' = [reqs EXCEPT ![r] =
                  [@ EXCEPT !.pc = "update",
                            !.routes_count = RoutesCount(reqs[r].user.id)]]
    /\ UNCHANGED <<users, routes, nextRoute>>

\* create_route: new_street_cred from the handler's copy of visited_places
\* and the count, then update_one $set street_cred.
create_route_update(r) ==
    /\ reqs[r].pc = "update"
    /\ LET req == reqs[r]
           new_street_cred ==
               calculate_street_cred(req.user.visited_places, req.routes_count)
       IN /\ users' = [users EXCEPT ![req.user.id] =
                         [@ EXCEPT !.street_cred = new_street_cred]]
          /\ reqs' = [reqs EXCEPT ![r] = Finish(req, HTTP_200)]
    /\ UNCHANGED <<routes, nextRoute>>

\* delete_route after get_or_create_mock_user: find_one by the string id,
\* the ownership check, then (a further await) delete_one by the string id.
delete_route(r) ==
    /\ reqs[r].kind = "delete_route"
    /\ reqs[r].pc \in {"body", "delete"}
    /\ LET req == reqs[r]
           found == {d \in routes : RouteIdMatches(d, req.route_id)}
       IN IF req.pc = "body"
          THEN /\ reqs' = [reqs EXCEPT ![r] =
                     IF found = {} THEN Finish(req, HTTP_404)
                     ELSE IF \E d \in found : d.user_id # req.user.id
                     THEN Finish(req, HTTP_403)
                     ELSE [req EXCEPT !.pc = "delete"]]
               /\ UNCHANGED routes
          ELSE /\ routes' = routes \ found
               /\ reqs' = [reqs EXCEPT ![r] =
                             Finish([req EXCEPT !.wrote = TRUE], HTTP_200)]
    /\ UNCHANGED <<users, nextRoute>>

\* list_routes after get_or_create_mock_user: reads only.
list_routes(r) ==
    /\ reqs[r].pc = "body"
    /\ reqs[r].kind = "list_routes"
    /\ reqs' = [reqs EXCEPT ![r] = Finish(reqs[r], HTTP_200)]
    /\ UNCHANGED <<users, routes, nextRoute>>

\* profile after get_or_create_mock_user: reads only.
profile(r) ==
    /\ reqs[r].pc = "body"
    /\ reqs[r].kind = "profile"
    /\ reqs' = [reqs EXCEPT ![r] = Finish(reqs[r], HTTP_200)]
    /\ UNCHANGED <<users, routes, nextRoute>>

\* update_profile after get_or_create_mock_user: $set name and updated_at
\* (updated_at always changes, so modified_count is 1 for a matched document).
update_profile(r) ==
    /\ reqs[r].pc = "body"
    /\ reqs[r].kind = "update_profile"
    /\ LET req == reqs[r] IN
       /\ users' = [users EXCEPT ![req.user.id] = [@ EXCEPT !.name = req.name]]
       /\ reqs' = [reqs EXCEPT ![r] = Finish([req EXCEPT !.wrote = TRUE], HTTP_200)]
    /\ UNCHANGED <<routes, nextRoute>>

\* update_preferences after get_or_create_mock_user: $set preferences.
update_preferences(r) ==
    /\ reqs[r].pc = "body"
    /\ reqs[r].kind = "update_preferences"
    /\ LET req == reqs[r] IN
       /\ users' = [users EXCEPT ![req.user.id] =
                      [@ EXCEPT !.preferences = req.prefs]]
       /\ reqs' = [reqs EXCEPT ![r] = Finish([req EXCEPT !.wrote = TRUE], HTTP_200)]
    /\ UNCHANGED <<routes, nextRoute>>

\* signup, first await: find_one({"email": ...}); an existing email is a 400
\* "Email already registered".
signup(r) ==
    /\ reqs[r].pc = "signup_find"
    /\ reqs' = [reqs EXCEPT ![r] =
                  IF UsersByEmail(reqs[r].email) # {}
                  THEN Finish(reqs[r], HTTP_400)
                  ELSE [@ EXCEPT !.pc = "signup_insert"]]
    /\ UNCHANGED <<users, routes, nextRoute>>

\* signup, second await: insert_one(user_doc); 201 with the new user.
signup_insert(r) ==
    /\ reqs[r].pc = "signup_insert"
    /\ Len(users) < MaxUsers
    /\ users' = Append(users, SignupUserDoc(reqs[r].name, reqs[r].email,
                                            reqs[r].password))
    /\ reqs' = [reqs EXCEPT ![r] =
                  Finish([reqs[r] EXCEPT !.wrote = TRUE,
                                         !.user = [NoUser EXCEPT !.id = Len(users) + 1]],
                         HTTP_201)]
    /\ UNCHANGED <<routes, nextRoute>>

\* login: find_one({"email": ...}), then verify_password on the stored hash;
\* an exception of verify_password is an unhandled error of the request.
login(r) ==
    /\ reqs[r].pc = "login_find"
    /\ LET req == reqs[r]
           found == UsersByEmail(req.email)
           refused == Finish([req EXCEPT !.detail = LOGIN_DETAIL], HTTP_401)
       IN  \E i \in (IF found = {} THEN {0} ELSE found) :
             reqs' = [reqs EXCEPT ![r] =
                IF i = 0 THEN refused
                ELSE LET verified == verify_password(req.password,
                                                     users[i].password_hash)
                     IN IF verified = "raise" THEN Finish(req, HTTP_500)
                        ELSE IF verified = "false" THEN refused
                        ELSE Finish([req EXCEPT !.user = Snapshot(i)], HTTP_200)]
    /\ UNCHANGED <<users, routes, nextRoute>>

\* auth/dependencies.py get_current_user: every failure up to the lookup
\* raises the one credentials_exception; a missing store handle is a 503.
get_current_user(r) ==
    /\ reqs[r].pc = "authenticate"
    /\ LET req == reqs[r]
           payload == decode_access_token(req.token)
           user_id == payload.sub
           credentials_exception ==
               Finish([req EXCEPT !.detail = CREDENTIALS_DETAIL], HTTP_401)
       IN  reqs' = [reqs EXCEPT ![r] =
              IF ~payload.ok THEN credentials_exception
              ELSE IF user_id = "none" THEN credentials_exception
              ELSE IF ~req.db THEN Finish(req, HTTP_503)
              ELSE IF ~UserIdIsValid(user_id) THEN credentials_exception
              ELSE IF UserIdOf(user_id) \notin 1..Len(users)
                   THEN credentials_exception
              ELSE [req EXCEPT !.pc = "body",
                               !.user = Snapshot(UserIdOf(user_id))]]
    /\ UNCHANGED <<users, routes, nextRoute>>

\* GET /auth/me body: the profile of the authenticated user.
get_current_user_profile(r) ==
    /\ reqs[r].pc = "body"
    /\ reqs[r].kind = "me"
    /\ reqs' = [reqs EXCEPT ![r] = Finish(reqs[r], HTTP_200)]
    /\ UNCHANGED <<users, routes, nextRoute>>

\* --------------------------------------------- utils/gamification.py
\* The visited_places lists a caller may pass: place id strings.
VisitedLists ==
    UNION { [1..n -> {"aa", "bb"}] : n \in 0..MaxVisited }

\* A caller is about to call one of the three functions.
GamificationCalls ==
    [fn : {"calculate_street_cred"}, pc : {"start"},
     visited_places : VisitedLists, routes_completed : 0..MaxCompleted,
     result : {0}]
    \cup
    [fn : {"calculate_level"}, pc : {"start"}, street_cred : 0..MaxStreetCred,
     result : {0}]
    \cup
    [fn : {"get_level_title"}, pc : {"start"}, level : 1..MaxLevel,
     result : {""}]

call_calculate_street_cred ==
    /\ call.fn = "calculate_street_cred"
    /\ call.pc = "start"
    /\ call' = [call EXCEPT
                  !.pc = "returned",
                  !.result = calculate_street_cred(call.visited_places,
                                                   call.routes_completed)]
    /\ UNCHANGED <<users, routes, nextRoute, reqs>>

call_calculate_level ==
    /\ call.fn = "calculate_level"
    /\ call.pc = "start"
    /\ call' = [call EXCEPT !.pc = "returned",
                            !.result = calculate_level(call.street_cred)]
    /\ UNCHANGED <<users, routes, nextRoute, reqs>>

call_get_level_title ==
    /\ call.fn = "get_level_title"
    /\ call.pc = "start"
    /\ call' = [call EXCEPT !.pc = "returned",
                            !.result = get_level_title(call.level)]
    /\ UNCHANGED <<users, routes, nextRoute, reqs>>

\* ------------------------------------------------ utils/narrative.py
\* Texts are sequences of characters.
\* The literal texts of the f-strings.
TEMPLATE ==
    [ placeholder |-> <<"Y", "o", "u", "r", " ", "j", "o", "u", "r", "n", "e", "y", " ", "a", "w", "a", "i", "t", "s", "!">>,
      visit |-> <<"V", "i", "s", "i", "t", " ">>,
      where |-> <<",", " ", "w", "h", "e", "r", "e", " ">>,
      begin |-> <<"B", "e", "g", "i", "n", " ", "y", "o", "u", "r", " ", "j", "o", "u", "r", "n", "e", "y", " ", "a", "t", " ">>,
      from_there |-> <<"F", "r", "o", "m", " ", "t", "h", "e", "r", "e", ",", " ", "l", "e", "t", " ", "t", "h", "e", " ", "p", "a", "t", "h", " ", "g", "u", "i", "d", "e", " ", "y", "o", "u", " ", "t", "o", " ">>,
      finally |-> <<"F", "i", "n", "a", "l", "l", "y", ",", " ", "c", "o", "m", "p", "l", "e", "t", "e", " ", "y", "o", "u", "r", " ", "a", "d", "v", "e", "n", "t", "u", "r", "e", " ", "a", "t", " ">>,
      comma |-> <<",", " ">>,
      dot |-> <<".">>,
      space |-> <<" ">>,
      ellipsis |-> <<".", ".", ".">> ]

\* The defaults of place.get('ai_summary', ...).
DEFAULT ==
    [ adventure_awaits |-> <<"a", "d", "v", "e", "n", "t", "u", "r", "e", " ", "a", "w", "a", "i", "t", "s">>,
      your_adventure_starts |-> <<"y", "o", "u", "r", " ", "a", "d", "v", "e", "n", "t", "u", "r", "e", " ", "s", "t", "a", "r", "t", "s">>,
      new_experiences_await |-> <<"n", "e", "w", " ", "e", "x", "p", "e", "r", "i", "e", "n", "c", "e", "s", " ", "a", "w", "a", "i", "t">>,
      your_journey_concludes |-> <<"y", "o", "u", "r", " ", "j", "o", "u", "r", "n", "e", "y", " ", "c", "o", "n", "c", "l", "u", "d", "e", "s">> ]

\* Summaries longer than SUMMARY_LIMIT are cut to SUMMARY_KEEP characters.
SUMMARY_LIMIT == 100
SUMMARY_KEEP == 97

\* A text of n characters, no two neighbours alike.
TextOfLen(n) ==
    [i \in 1..n |->
        <<"0", "1", "2", "3", "4", "5", "6", "7", "8", "9">>[(i % 10) + 1]]

\* The place dictionaries a route may hold: each has a name; the key
\* ai_summary may be missing, and its value may be the empty string.
NarrativePlaces ==
    { [name |-> <<"A">>, has_ai_summary |-> TRUE, ai_summary |-> TextOfLen(3)],
      [name |-> <<"B">>, has_ai_summary |-> FALSE, ai_summary |-> <<>>],
      [name |-> <<"C">>, has_ai_summary |-> TRUE, ai_summary |-> <<>>],
      [name |-> <<"D">>, has_ai_summary |-> TRUE, ai_summary |-> TextOfLen(100)],
      [name |-> <<"E">>, has_ai_summary |-> TRUE, ai_summary |-> TextOfLen(101)],
      [name |-> <<"F">>, has_ai_summary |-> TRUE, ai_summary |-> TextOfLen(105)] }

\* place.get('ai_summary', default)
GetSummary(place, default) ==
    IF place.has_ai_summary THEN place.ai_summary ELSE default

\* if len(summary) > 100: summary = summary[:97] + "..."
Shorten_keeping_limit(summary) ==
    IF Len(summary) > SUMMARY_LIMIT
    THEN SubSeq(summary, 1, SUMMARY_LIMIT) \o TEMPLATE.ellipsis
    ELSE summary

Shorten(summary) ==
    IF Len(summary) > SUMMARY_LIMIT
    THEN SubSeq(summary, 1, SUMMARY_KEEP) \o TEMPLATE.ellipsis
    ELSE summary

\* " ".join(parts)
RECURSIVE Join(_)
Join(parts) ==
    IF parts = <<>> THEN <<>>
    ELSE IF Len(parts) = 1 THEN parts[1]
    ELSE parts[1] \o TEMPLATE.space \o Join(Tail(parts))

FirstPart(place) ==
    TEMPLATE.begin \o place.name \o TEMPLATE.where
        \o GetSummary(place, DEFAULT.your_adventure_starts) \o TEMPLATE.dot

MiddlePart(place) ==
    TEMPLATE.from_there \o place.name \o TEMPLATE.comma
        \o Shorten(GetSummary(place, DEFAULT.new_experiences_await)) \o TEMPLATE.dot

LastPart(place) ==
    TEMPLATE.finally \o place.name \o TEMPLATE.comma
        \o Shorten(GetSummary(place, DEFAULT.your_journey_concludes)) \o TEMPLATE.dot

\* The loop over places[1:-1], run only when len(places) > 2.
MiddleParts_skipping_one(places) ==
    IF Len(places) > 2
    THEN [i \in 1..(Len(places) - 3) |-> MiddlePart(places[i + 2])]
    ELSE <<>>

MiddleParts(places) ==
    IF Len(places) > 2
    THEN [i \in 1..(Len(places) - 2) |-> MiddlePart(places[i + 1])]
    ELSE <<>>

\* narrative_parts at the return of the branch for two or more places.
NarrativeParts(places) ==
    <<FirstPart(places[1])>> \o MiddleParts(places)
        \o <<LastPart(places[Len(places)])>>

generate_route_narrative(places) ==
    IF places = <<>> THEN TEMPLATE.placeholder
    ELSE IF Len(places) = 1
    THEN TEMPLATE.visit \o places[1].name \o TEMPLATE.where
            \o GetSummary(places[1], DEFAULT.adventure_awaits) \o TEMPLATE.dot
    ELSE Join(NarrativeParts(places))

NarrativeCalls ==
    [fn : {"generate_route_narrative"}, pc : {"start"},
     places : UNION { [1..n -> NarrativePlaces] : n \in 0..MaxNarrativePlaces },
     narrative_parts : {<<>>}, result : {<<>>}]

call_generate_route_narrative ==
    /\ call.fn = "generate_route_narrative"
    /\ call.pc = "start"
    /\ call' = [call EXCEPT
                  !.pc = "returned",
                  !.narrative_parts =
                      IF Len(call.places) >= 2 THEN NarrativeParts(call.places)
                      ELSE <<>>,
                  !.result = generate_route_narrative(call.places)]
    /\ UNCHANGED <<users, routes, nextRoute, reqs>>

\* ------------------------------------------- services/gemini_service.py
\* GeminiService.__init__: max_retries = 2, retry_delay = 1.0 (seconds).
MAX_RETRIES == 2
RETRY_DELAY == 1

RECURSIVE Pow2(_)
Pow2(n) == IF n = 0 THEN 1 ELSE 2 * Pow2(n - 1)

\* The words _generate_with_retry looks for in str(e).lower().
RateWords == {"rate", "quota", "429"}
SafetyWords == {"safety", "blocked"}

\* What one call of model.generate_content can do: give a response whose
\* text may be empty, or raise an error whose lowered message holds any of
\* the words above.
ModelOutcomes ==
    [kind : {"text"}, text : {"", "t1", "t2"}]
    \cup [kind : {"error"}, words : SUBSET (RateWords \cup SafetyWords)]

\* `if not response.text: raise ValueError("Empty response from Gemini API")`
\* makes an empty response an error of none of the words.
AsError(outcome) ==
    IF outcome.kind = "text" THEN [kind |-> "error", words |-> {}]
    ELSE outcome

IsRateError(e) == e.words \cap RateWords # {}

IsSafetyError(e) == e.words \cap SafetyWords # {}

\* The except clause: what follows a failed attempt.
AfterFailure(e, attempt) ==
    IF IsRateError(e) /\ attempt < MAX_RETRIES THEN "sleep"
    ELSE IF IsSafetyError(e) THEN "raise_blocked"
    ELSE IF attempt < MAX_RETRIES THEN "sleep"
    ELSE "reraise"

RetryDelay_constant(attempt) == RETRY_DELAY

RetryDelay(attempt) == RETRY_DELAY * Pow2(attempt)

RetryCall ==
    [fn |-> "_generate_with_retry", pc |-> "generate", attempt |-> 0,
     outcomes |-> <<>>, delays |-> <<>>, result |-> "", raised |-> "none"]

\* await asyncio.to_thread(self.model.generate_content, prompt), and the
\* code up to the next await, return or raise.
generate_content ==
    /\ call.fn = "_generate_with_retry"
    /\ call.pc = "generate"
    /\ \E outcome \in ModelOutcomes :
         LET seen == Append(call.outcomes, outcome) IN
         IF outcome.kind = "text" /\ outcome.text # ""
         THEN call' = [call EXCEPT !.pc = "returned", !.outcomes = seen,
                                   !.result = outcome.text]
         ELSE LET next == AfterFailure(AsError(outcome), call.attempt) IN
              CASE next = "sleep" ->
                     call' = [call EXCEPT
                                !.pc = "sleep", !.outcomes = seen,
                                !.delays = Append(@, RetryDelay(call.attempt))]
                [] next = "raise_blocked" ->
                     call' = [call EXCEPT !.pc = "raised", !.outcomes = seen,
                                          !.raised = "blocked"]
                [] next = "reraise" ->
                     call' = [call EXCEPT !.pc = "raised", !.outcomes = seen,
                                          !.raised = "last_error"]
    /\ UNCHANGED <<users, routes, nextRoute, reqs>>

\* await asyncio.sleep(delay); continue
retry_sleep ==
    /\ call.fn = "_generate_with_retry"
    /\ call.pc = "sleep"
    /\ call' = IF call.attempt + 1 <= MAX_RETRIES
               THEN [call EXCEPT !.pc = "generate", !.attempt = @ + 1]
               ELSE [call EXCEPT !.pc = "raised", !.raised = "failed_after"]
    /\ UNCHANGED <<users, routes, nextRoute, reqs>>

\* The parsed JSON of a response to the initial-route prompt: something
\* that is not an object, or an object that may lack each field and whose
\* stops and descriptions may be of another type.
StopLists == { [i \in 1..n |-> i] : n \in 0..MaxStops }

InitialResponses ==
    { [is_dict |-> FALSE] }
    \cup [is_dict : {TRUE}, has_name : BOOLEAN, has_stops : BOOLEAN,
          stops_is_list : BOOLEAN, stops : StopLists,
          has_descriptions : BOOLEAN, descriptions_is_dict : BOOLEAN]

\* settings.max_places_per_route
MAX_PLACES_PER_ROUTE == 8

\* The least number of stops of a route, and of characters of a narrative.
MIN_STOPS == 2
MIN_NARRATIVE == 50

\* _validate_initial_route_response: "raise", or the route data it leaves.
_validate_initial_route_response(route_data) ==
    IF ~route_data.is_dict THEN "raise"
    ELSE IF ~route_data.has_name \/ ~route_data.has_stops
            \/ ~route_data.has_descriptions THEN "raise"
    ELSE IF ~route_data.stops_is_list \/ Len(route_data.stops) < MIN_STOPS
    THEN "raise"
    ELSE IF ~route_data.descriptions_is_dict THEN "raise"
    ELSE "ok"

\* The stops after `route_data['stops'][:settings.max_places_per_route]`.
TruncatedStops(stops) ==
    IF Len(stops) > MAX_PLACES_PER_ROUTE
    THEN SubSeq(stops, 1, MAX_PLACES_PER_ROUTE)
    ELSE stops

\* The parsed JSON of a response to the refinement prompt.
RefinementResponses ==
    { [is_dict |-> FALSE] }
    \cup [is_dict : {TRUE}, has_narrative : BOOLEAN, narrative_is_str : BOOLEAN,
          narrative_len : {0, MIN_NARRATIVE - 1, MIN_NARRATIVE, MIN_NARRATIVE + 1},
          has_refined_name : BOOLEAN, travel_times : {"absent", "dict", "other"}]

_validate_refinement_response_any_text(refined_data) ==
    IF ~refined_data.is_dict THEN "raise"
    ELSE IF ~refined_data.has_narrative THEN "raise"
    ELSE IF ~refined_data.narrative_is_str THEN "raise"
    ELSE IF refined_data.travel_times = "other" THEN "raise"
    ELSE "ok"

_validate_refinement_response(refined_data) ==
    IF ~refined_data.is_dict THEN "raise"
    ELSE IF ~refined_data.has_narrative THEN "raise"
    ELSE IF ~refined_data.narrative_is_str
            \/ refined_data.narrative_len < MIN_NARRATIVE THEN "raise"
    ELSE IF refined_data.travel_times = "other" THEN "raise"
    ELSE "ok"

\* ---------------------------------------------- routers/ai_routes_demo.py
\* What the places lookup gives for one stop: nothing, or details with or
\* without review data (review_count and rating).
LookupOutcomes == {"none", "reviewed", "unreviewed"}

\* AIPlace.id and AIRoute.id are declared int; the handler passes the
\* strings "demo_place_<i>" and "demo_route_123". A string is accepted for
\* an int field only if it is the text of an integer.
DemoPlaceId(i) == [text |-> "demo_place_", number |-> i]

DemoRouteId == [text |-> "demo_route_", number |-> 123]

IsIntText(id) == id.text = ""

NoRaw == [is_dict |-> FALSE]

AiRouteCall ==
    [fn |-> "generate_ai_route_demo", pc |-> "initial",
     initial_seen |-> FALSE, initial_raw |-> NoRaw, stops |-> <<>>,
     next_stop |-> 1, lookups |-> <<>>, enriched_places |-> <<>>,
     refine_seen |-> FALSE, refine_raised |-> FALSE, refined_raw |-> NoRaw,
     narrative |-> "unset", refined_name |-> "unset",
     response |-> [success |-> FALSE, message |-> "", route |-> "none"]]

AiFailed(message) == [success |-> FALSE, message |-> message, route |-> "none"]

\* create_gemini_service() or gemini_service.generate_initial_route raises:
\* no API key, the retry loop gave up, or the text is no JSON.
ai_initial_route_raises ==
    /\ call.fn = "generate_ai_route_demo"
    /\ call.pc = "initial"
    /\ call' = [call EXCEPT !.pc = "returned",
                            !.response = AiFailed("Failed to generate route")]
    /\ UNCHANGED <<users, routes, nextRoute, reqs>>

\* await gemini_service.generate_initial_route(...): the response is parsed
\* and validated; a rejected one raises into the handler's except clause.
ai_generate_initial_route ==
    /\ call.fn = "generate_ai_route_demo"
    /\ call.pc = "initial"
    /\ \E raw \in InitialResponses :
         IF _validate_initial_route_response(raw) = "raise"
         THEN call' = [call EXCEPT
                         !.pc = "returned", !.initial_seen = TRUE,
                         !.initial_raw = raw,
                         !.response = AiFailed("Failed to generate route")]
         ELSE call' = [call EXCEPT
                         !.pc = "enrich", !.initial_seen = TRUE,
                         !.initial_raw = raw,
                         !.stops = TruncatedStops(raw.stops)]
    /\ UNCHANGED <<users, routes, nextRoute, reqs>>

\* await google_places_service.search_places_by_name(place_name, ...) for
\* the next stop, and after the last stop the test `if not enriched_places`.
ai_search_place ==
    /\ call.fn = "generate_ai_route_demo"
    /\ call.pc = "enrich"
    /\ \E outcome \in LookupOutcomes :
         LET enriched == IF outcome = "none" THEN call.enriched_places
                         ELSE Append(call.enriched_places,
                                     [stop |-> call.stops[call.next_stop],
                                      reviewed |-> outcome = "reviewed"])
             last == call.next_stop = Len(call.stops)
         IN  call' = [call EXCEPT
                        !.lookups = Append(@, outcome),
                        !.enriched_places = enriched,
                        !.next_stop = @ + 1,
                        !.pc = IF ~last THEN "enrich"
                               ELSE IF enriched = <<>> THEN "returned"
                               ELSE "refine",
                        !.response =
                            IF last /\ enriched = <<>>
                            THEN AiFailed("Could not find any of the suggested places")
                            ELSE @]
    /\ UNCHANGED <<users, routes, nextRoute, reqs>>

\* The places for which AIPlace(...) is built: those with review data.
ReviewedIndexes(enriched) ==
    { i \in 1..Len(enriched) : enriched[i].reviewed }

\* Steps 4 and 5 of the handler, which await nothing: the loop that builds
\* an AIPlace per place with review data, then AIRoute and the response.
BuildResponse(enriched, narrative, refined_name) ==
    IF ReviewedIndexes(enriched) = {}
    THEN AiFailed("Could not get real data from Google Places API for the suggested places")
    ELSE IF \E i \in ReviewedIndexes(enriched) : ~IsIntText(DemoPlaceId(i - 1))
    THEN AiFailed("Failed to generate route")
    ELSE IF ~IsIntText(DemoRouteId)
            \/ \E i \in 1..Len(enriched) : ~IsIntText(DemoPlaceId(i - 1))
    THEN AiFailed("Failed to generate route")
    ELSE [success |-> TRUE, message |-> "Successfully generated demo route",
          route |-> [name |-> refined_name, narrative |-> narrative,
                     places |-> ReviewedIndexes(enriched)]]

\* await gemini_service.refine_route_narrative(...) raises before any
\* response is parsed; the handler falls back and goes on to the end.
ai_refine_raises ==
    /\ call.fn = "generate_ai_route_demo"
    /\ call.pc = "refine"
    /\ call' = [call EXCEPT
                  !.pc = "returned", !.refine_raised = TRUE,
                  !.narrative = "fallback", !.refined_name = "initial",
                  !.response = BuildResponse(call.enriched_places,
                                             "fallback", "initial")]
    /\ UNCHANGED <<users, routes, nextRoute, reqs>>

\* await gemini_service.refine_route_narrative(...) gets a response, which
\* is validated; then the handler runs to its end.
ai_refine_route_narrative ==
    /\ call.fn = "generate_ai_route_demo"
    /\ call.pc = "refine"
    /\ \E raw \in RefinementResponses :
         LET rejected == _validate_refinement_response(raw) = "raise"
             narrative == IF rejected THEN "fallback" ELSE "refined"
             refined_name == IF ~rejected /\ raw.has_refined_name
                             THEN "refined" ELSE "initial"
         IN  call' = [call EXCEPT
                        !.pc = "returned", !.refine_seen = TRUE,
                        !.refine_raised = rejected, !.refined_raw = raw,
                        !.narrative = narrative, !.refined_name = refined_name,
                        !.response = BuildResponse(call.enriched_places,
                                                   narrative, refined_name)]
    /\ UNCHANGED <<users, routes, nextRoute, reqs>>

\* ------------------------------------------- utils/recommendations.py
\* Words of tags, categories and interests are sequences of characters, so
\* that str.lower(), equality and `in` (substring) are computed.  Moods and
\* vibe words, which are only lower-cased and compared, are strings.
w_art == <<"a", "r", "t">>
w_Arts == <<"A", "r", "t", "s">>
w_cafe == <<"c", "a", "f", "e">>
w_Cafe == <<"C", "a", "f", "e">>
w_park == <<"p", "a", "r", "k">>
w_Park == <<"P", "a", "r", "k">>

\* str.lower() on the characters in use.
LowerChar(c) ==
    CASE c = "A" -> "a"
      [] c = "C" -> "c"
      [] c = "P" -> "p"
      [] OTHER -> c

LowerChars(s) == [i \in 1..Len(s) |-> LowerChar(s[i])]

\* str.lower() on the mood and vibe words in use.
LowerWord(w) ==
    CASE w = "Relaxed" -> "relaxed"
      [] w = "Cozy" -> "cozy"
      [] w = "Serene" -> "serene"
      [] OTHER -> w

\* `a in b` for two str: a is a substring of b.
IsSubstring(a, b) ==
    \E i \in 0..(Len(b) - Len(a)) : SubSeq(b, i + 1, i + Len(a)) = a

\* get_mood_synonyms: mood_map.get(mood, []).
get_mood_synonyms(mood) ==
    CASE mood = "relaxed" ->
           <<"peaceful", "serene", "calm", "quiet", "tranquil", "cozy">>
      [] mood = "adventurous" ->
           <<"exciting", "bold", "daring", "playful", "energetic">>
      [] mood = "curious" ->
           <<"discovery", "exploring", "intellectual", "thought-provoking">>
      [] mood = "energetic" ->
           <<"lively", "vibrant", "dynamic", "bustling", "playful">>
      [] mood = "creative" ->
           <<"inspiring", "artistic", "innovative", "modern">>
      [] mood = "romantic" ->
           <<"intimate", "elegant", "beautiful", "warm">>
      [] mood = "social" ->
           <<"community", "friendly", "lively", "bustling">>
      [] mood = "peaceful" ->
           <<"serene", "quiet", "calm", "tranquil", "relaxed">>
      [] mood = "inspired" ->
           <<"inspiring", "creative", "thought-provoking", "modern">>
      [] mood = "nostalgic" ->
           <<"vintage", "timeless", "reflective", "classic">>
      [] OTHER -> <<>>

\* Place documents the catalog is drawn from, in natural order.  rating is
\* in tenths (49 is 4.9).  A document inserted by scripts/seed_places.py has
\* an ObjectId _id; models/place.py declares the id an int.
CatalogPlaces ==
    << [key |-> "p1", idType |-> "int", walking_time |-> 5, price_level |-> 0,
        vibe |-> <<"Serene">>, tags |-> <<w_art>>,
        category |-> w_Arts, rating |-> 47],
       [key |-> "p2", idType |-> "int", walking_time |-> 8, price_level |-> 2,
        vibe |-> <<"Relaxed">>, tags |-> <<w_cafe>>,
        category |-> w_Cafe, rating |-> 49],
       [key |-> "p3", idType |-> "int", walking_time |-> 45, price_level |-> 1,
        vibe |-> <<"relaxed", "serene">>, tags |-> <<w_art, w_park>>,
        category |-> w_Park, rating |-> 50],
       [key |-> "p4", idType |-> "int", walking_time |-> 10, price_level |-> 3,
        vibe |-> <<"cozy">>, tags |-> <<>>,
        category |-> w_Cafe, rating |-> 45],
       [key |-> "p5", idType |-> "ObjectId", walking_time |-> 5, price_level |-> 0,
        vibe |-> <<"quiet">>, tags |-> <<w_park>>,
        category |-> w_Park, rating |-> 44],
       [key |-> "p6", idType |-> "int", walking_time |-> 10, price_level |-> 1,
        vibe |-> <<>>, tags |-> <<>>,
        category |-> w_Arts, rating |-> 40],
       [key |-> "p7", idType |-> "int", walking_time |-> 10, price_level |-> 1,
        vibe |-> <<"lively">>, tags |-> <<w_cafe>>,
        category |-> <<>>, rating |-> 48],
       [key |-> "p8", idType |-> "int", walking_time |-> 10, price_level |-> 0,
        vibe |-> <<"calm", "calm">>, tags |-> <<w_art>>,
        category |-> w_Park, rating |-> 45],
       [key |-> "p9", idType |-> "int", walking_time |-> 20, price_level |-> 1,
        vibe |-> <<"bold">>, tags |-> <<>>,
        category |-> w_Arts, rating |-> 46] >>

\* The documents at the positions in S, in natural order.
RECURSIVE Select(_, _)
Select(docs, S) ==
    IF S = {} THEN <<>>
    ELSE LET i == CHOOSE x \in S : \A y \in S : x <= y
         IN <<docs[i]>> \o Select(docs, S \ {i})

\* The catalogs: up to MaxCatalog of the documents.
Catalogs ==
    { Select(CatalogPlaces, S) :
        S \in {T \in SUBSET (1..Len(CatalogPlaces)) : Cardinality(T) <= MaxCatalog} }

\* Bodies of POST /places/recommendations.
Queries ==
    [mood : {"", "relaxed", "Relaxed", "cozy", "peaceful", "happy"},
     time_available : {10, 60},
     price_level : {1, 3},
     interests : {<<>>, <<w_art>>, <<w_Cafe>>, <<w_park, w_art>>, <<<<>>>>,
                  <<w_art, w_art>>}]

\* places_collection.find({"walking_time": {"$lte": ...},
\*                         "price_level": {"$lte": ...}}).to_list()
FindPlaces_time_only(catalog, time_available, price_level) ==
    SelectSeq(catalog, LAMBDA p : p.walking_time <= time_available)

FindPlaces(catalog, time_available, price_level) ==
    SelectSeq(catalog, LAMBDA p : /\ p.walking_time <= time_available
                                  /\ p.price_level <= price_level)

\* The mood block: +2 for an exact vibe word, else +1 for each vibe word in
\* the synonym list.
RECURSIVE CountIn(_, _)
CountIn(words, list) ==
    IF words = <<>> THEN 0
    ELSE (IF Head(words) \in Range(list) THEN 1 ELSE 0) + CountIn(Tail(words), list)

MoodScore_adding_both(place, mood) ==
    LET mood_lower == LowerWord(mood)
        place_vibes == [i \in 1..Len(place.vibe) |-> LowerWord(place.vibe[i])]
    IN (IF mood_lower \in Range(place_vibes) THEN 2 ELSE 0)
       + CountIn(place_vibes, get_mood_synonyms(mood_lower))

MoodScore(place, mood) ==
    LET mood_lower == IF mood # "" THEN LowerWord(mood) ELSE ""
        place_vibes == [i \in 1..Len(place.vibe) |-> LowerWord(place.vibe[i])]
    IN IF mood_lower = "" THEN 0
       ELSE IF mood_lower \in Range(place_vibes) THEN 2
       ELSE CountIn(place_vibes, get_mood_synonyms(mood_lower))

\* The interest block: for each interest +1 if it is a tag and +1 if it is a
\* substring of the category.
RECURSIVE InterestScore_tags_only(_, _)
InterestScore_tags_only(place, interests) ==
    IF interests = <<>> THEN 0
    ELSE LET interest == LowerChars(Head(interests))
             place_tags == [i \in 1..Len(place.tags) |-> LowerChars(place.tags[i])]
         IN (IF interest \in Range(place_tags) THEN 1 ELSE 0)
            + InterestScore_tags_only(place, Tail(interests))

RECURSIVE InterestScore(_, _)
InterestScore(place, interests) ==
    IF interests = <<>> THEN 0
    ELSE LET interest == LowerChars(Head(interests))
             place_tags == [i \in 1..Len(place.tags) |-> LowerChars(place.tags[i])]
             place_category == LowerChars(place.category)
         IN (IF interest \in Range(place_tags) THEN 1 ELSE 0)
            + (IF IsSubstring(interest, place_category) THEN 1 ELSE 0)
            + InterestScore(place, Tail(interests))

\* The rating block (thresholds 4.8 and 4.5, in tenths).
RATING_TOP == 48
RATING_HIGH == 45

RatingScore_strict(rating) ==
    IF rating > RATING_TOP THEN 2
    ELSE IF rating > RATING_HIGH THEN 1
    ELSE 0

RatingScore(rating) ==
    IF rating >= RATING_TOP THEN 2
    ELSE IF rating >= RATING_HIGH THEN 1
    ELSE 0

\* One pass of the scoring loop: the three increments and their total.
ScorePlace(place, query) ==
    LET m == MoodScore(place, query.mood)
        i == InterestScore(place, query.interests)
        r == RatingScore(place.rating)
    IN [key |-> place.key, mood |-> m, interests |-> i, rating |-> r,
        score |-> m + i + r]

\* PlaceResponse.from_db(place): id: int is validated, an ObjectId _id is a
\* ValidationError.
FromDbRaises(place) == place.idType # "int"

\* scored_places.sort(key=score, reverse=True): stable, equal scores keep
\* their order.
RECURSIVE InsertByScore(_, _)
InsertByScore(x, sorted) ==
    IF sorted = <<>> THEN <<x>>
    ELSE IF Head(sorted).score < x.score THEN <<x>> \o sorted
    ELSE <<Head(sorted)>> \o InsertByScore(x, Tail(sorted))

RECURSIVE SortByScore(_)
SortByScore(scored) ==
    IF scored = <<>> THEN <<>>
    ELSE InsertByScore(scored[Len(scored)],
                       SortByScore(SubSeq(scored, 1, Len(scored) - 1)))

\* scored_places[:6]
TOP_N == 6

Top(scored) == SubSeq(scored, 1, IF Len(scored) < TOP_N THEN Len(scored) ELSE TOP_N)

\* A query arrives with the catalog as it is.
RecommendationCalls ==
    [fn : {"generate_recommendations"}, pc : {"start"}, catalog : Catalogs,
     query : Queries, places_list : {<<>>}, scored : {<<>>}, result : {<<>>}]

\* generate_recommendations: filter in the store, score each place, convert
\* it, sort, cut.  The first place that from_db rejects ends the call with
\* the exception, after its score was computed.
generate_recommendations ==
    /\ call.fn = "generate_recommendations"
    /\ call.pc = "start"
    /\ LET places_list == FindPlaces(call.catalog, call.query.time_available,
                                     call.query.price_level)
           bad == {k \in 1..Len(places_list) : FromDbRaises(places_list[k])}
           last == IF bad = {} THEN Len(places_list)
                   ELSE CHOOSE k \in bad : \A j \in bad : k <= j
           scored == [k \in 1..last |-> ScorePlace(places_list[k], call.query)]
           sorted == SortByScore(scored)
       IN call' = [call EXCEPT
                     !.pc = IF bad = {} THEN "returned" ELSE "raised",
                     !.places_list = places_list,
                     !.scored = scored,
                     !.result = IF bad = {} THEN [k \in 1..Len(Top(sorted)) |->
                                                    Top(sorted)[k].key]
                                ELSE <<>>]
    /\ UNCHANGED <<users, routes, nextRoute, reqs>>

\* ------------------------------------------------------- specifications
Step(r) ==
    \/ get_or_create_mock_user(r)
    \/ insert_mock_user(r)
    \/ visit_place(r)
    \/ create_route(r)
    \/ create_route_count(r)
    \/ create_route_update(r)
    \/ delete_route(r)
    \/ list_routes(r)
    \/ profile(r)
    \/ update_profile(r)
    \/ update_preferences(r)
    \/ signup(r)
    \/ signup_insert(r)
    \/ respond(r)

Arrive(r, load) ==
    \/ post_visit_place(r, load)
    \/ post_routes(r, load)
    \/ delete_routes(r, load)
    \/ get_routes(r, load)
    \/ get_profile(r, load)
    \/ put_profile(r, load)
    \/ put_preferences(r, load)
    \/ post_signup(r, load)

\* The requests that race for the same documents.
ArriveConc(r, load) ==
    \/ post_visit_place(r, load)
    \/ post_routes(r, load)

StepConc(r) ==
    \/ get_or_create_mock_user(r)
    \/ insert_mock_user(r)
    \/ visit_place(r)
    \/ create_route(r)
    \/ create_route_count(r)
    \/ create_route_update(r)
    \/ respond(r)

\* The requests that race to insert a user document.
ArriveRace(r, load) ==
    \/ post_signup(r, load)
    \/ get_profile(r, load)

StepRace(r) ==
    \/ get_or_create_mock_user(r)
    \/ insert_mock_user(r)
    \/ profile(r)
    \/ signup(r)
    \/ signup_insert(r)
    \/ respond(r)

\* Signup, login, GET /auth/me and the creation of the mock user.
ArriveAuth(r, load) ==
    \/ post_signup(r, load)
    \/ post_login(r, load)
    \/ get_me(r, load)
    \/ get_profile(r, load)

StepAuth(r) ==
    \/ get_or_create_mock_user(r)
    \/ insert_mock_user(r)
    \/ profile(r)
    \/ signup(r)
    \/ signup_insert(r)
    \/ login(r)
    \/ get_current_user(r)
    \/ get_current_user_profile(r)
    \/ respond(r)

\* Requests handled one after the other.
Next ==
    /\ \E r \in Slots : Arrive(r, Sequential) \/ Step(r)
    /\ UNCHANGED call

Spec == Init /\ [][Next]_vars

\* Up to MaxInFlight requests interleaved at their awaits.
NextConc ==
    /\ \E r \in Slots : ArriveConc(r, Concurrent) \/ StepConc(r)
    /\ UNCHANGED call

SpecConc == Init /\ [][NextConc]_vars

\* Up to MaxInFlight signup / mock-user requests interleaved at their awaits.
NextRace ==
    /\ \E r \in Slots : ArriveRace(r, Racing) \/ StepRace(r)
    /\ UNCHANGED call

SpecRace == Init /\ [][NextRace]_vars

\* Signup, login and token-protected requests handled one after the other.
NextAuth ==
    /\ \E r \in Slots : ArriveAuth(r, Authenticating) \/ StepAuth(r)
    /\ UNCHANGED call

SpecAuth == Init /\ [][NextAuth]_vars

\* Recommendation queries against every catalog.
InitRecommend ==
    /\ users = <<>>
    /\ routes = {}
    /\ nextRoute = 0
    /\ reqs = [r \in Slots |-> IdleReq]
    /\ call \in RecommendationCalls

NextRecommend == generate_recommendations

SpecRecommend == InitRecommend /\ [][NextRecommend]_vars

\* Calls of the functions of utils/gamification.py on every argument.
InitGamification ==
    /\ users = <<>>
    /\ routes = {}
    /\ nextRoute = 0
    /\ reqs = [r \in Slots |-> IdleReq]
    /\ call \in GamificationCalls

NextGamification ==
    \/ call_calculate_street_cred
    \/ call_calculate_level
    \/ call_get_level_title

SpecGamification == InitGamification /\ [][NextGamification]_vars

\* Calls of generate_route_narrative on every list of places.
InitNarrative ==
    /\ users = <<>>
    /\ routes = {}
    /\ nextRoute = 0
    /\ reqs = [r \in Slots |-> IdleReq]
    /\ call \in NarrativeCalls

NextNarrative == call_generate_route_narrative

SpecNarrative == InitNarrative /\ [][NextNarrative]_vars

\* One call of GeminiService._generate_with_retry against every behaviour
\* of the external model.
InitRetry ==
    /\ users = <<>>
    /\ routes = {}
    /\ nextRoute = 0
    /\ reqs = [r \in Slots |-> IdleReq]
    /\ call = RetryCall

NextRetry == generate_content \/ retry_sleep

SpecRetry == InitRetry /\ [][NextRetry]_vars

\* The event loop runs a task that is ready: the model's call returns or
\* raises, and a sleep ends.
SpecRetryFair == SpecRetry /\ WF_vars(NextRetry)

\* One request to generate_ai_route_demo against every behaviour of the
\* text-generation service and of the places lookup.
InitAiRoute ==
    /\ users = <<>>
    /\ routes = {}
    /\ nextRoute = 0
    /\ reqs = [r \in Slots |-> IdleReq]
    /\ call = AiRouteCall

NextAiRoute ==
    \/ ai_initial_route_raises
    \/ ai_generate_initial_route
    \/ ai_search_place
    \/ ai_refine_raises
    \/ ai_refine_route_narrative

SpecAiRoute == InitAiRoute /\ [][NextAiRoute]_vars

\* Every request of a process that has no database handle.
ArriveUnavailable(r, load) ==
    \/ post_visit_place(r, load)
    \/ post_routes(r, load)
    \/ delete_routes(r, load)
    \/ get_routes(r, load)
    \/ get_profile(r, load)
    \/ put_profile(r, load)
    \/ put_preferences(r, load)
    \/ post_signup(r, load)
    \/ post_login(r, load)

NextUnavailable ==
    /\ \E r \in Slots : ArriveUnavailable(r, Disconnected) \/ respond(r)
    /\ UNCHANGED call

SpecUnavailable == Init /\ [][NextUnavailable]_vars

\* ----------------------------------------------------------------- claims
Done(r) == reqs[r].pc = "done"

Quiescent == \A r \in Slots : reqs[r].pc \in {"idle", "done"}

OwnedRoutes(i) == {d \in routes : d.user_id = i}

C2_NoLostUpdate ==
    \A r1, r2 \in Slots :
        ( /\ r1 # r2
          /\ Done(r1) /\ reqs[r1].status = 200 /\ reqs[r1].kind = "visit_place"
          /\ Done(r2) /\ reqs[r2].status = 200
          /\ reqs[r2].kind \in {"visit_place", "create_route"}
          /\ reqs[r1].user.id = reqs[r2].user.id )
        => LET u == users[reqs[r1].user.id] IN
           /\ reqs[r1].placeId \in Range(u.visited_places)
           /\ reqs[r2].kind = "visit_place" => reqs[r2].placeId \in Range(u.visited_places)
           /\ u.street_cred =
                 10 * Len(u.visited_places)
                 + 25 * Cardinality(OwnedRoutes(reqs[r1].user.id))

\* The place a stored or requested id string denotes: ObjectId(s).
SamePlace(s, t) == ObjectIdOf(s) = ObjectIdOf(t)

Listed(visited_places, p) ==
    {k \in 1..Len(visited_places) : SamePlace(visited_places[k], p)}

\* C3: a successful visit-place of a place p that is not yet listed appends
\* p once and adds 10; a successful visit-place of a place p that is already
\* listed (the second call) leaves the store as it is and writes nothing, so
\* that p is listed once.
C3_VisitPlaceIdempotent ==
    [][ \A r \in Slots :
          ( /\ reqs[r].kind = "visit_place"
            /\ reqs[r].pc = "body"
            /\ reqs'[r].pc = "done"
            /\ reqs'[r].status = 200 )
          => LET u == reqs[r].user.id
                 p == reqs[r].placeId
             IN IF Listed(users[u].visited_places, p) # {}
                THEN /\ users' = users
                     /\ routes' = routes
                     /\ ~reqs'[r].wrote
                     /\ Cardinality(Listed(users[u].visited_places, p)) = 1
                ELSE /\ users'[u].visited_places = Append(users[u].visited_places, p)
                     /\ users'[u].street_cred = users[u].street_cred + 10
                     /\ Cardinality(Listed(users'[u].visited_places, p)) = 1
      ]_vars

\* A create-route body with at least 2 ids of which one resolves to no place.
HasUnknownPlace(req) ==
    /\ req.kind = "create_route"
    /\ req.has_place_ids
    /\ Len(req.place_ids) >= 2
    /\ \E k \in 1..Len(req.place_ids) :
         ~(\E p \in PlaceDocs : p.idType = "int" /\ p.id = req.place_ids[k])

\* C4: a create-route with an unknown place id ends in 404 and has inserted
\* or updated no document in any collection.
C4_UnknownPlacePersistsNothing ==
    \A r \in Slots :
        (Done(r) /\ HasUnknownPlace(reqs[r]))
        => (reqs[r].status = 404 /\ ~reqs[r].wrote)

C7_NoDuplicateVisited ==
    \A i \in 1..Len(users) :
        \A k1, k2 \in 1..Len(users[i].visited_places) :
            k1 # k2 => ~SamePlace(users[i].visited_places[k1],
                                  users[i].visited_places[k2])

\* C8: every stored route has at least 2 place ids, and a create-route with
\* fewer than 2 (an empty list, one id, or no place_ids) is answered with a
\* validation error (400 or 422) and inserts nothing.
C8_ShortRouteRejected ==
    /\ \A d \in routes : Len(d.place_ids) >= 2
    /\ \A r \in Slots :
         ( /\ Done(r)
           /\ reqs[r].kind = "create_route"
           /\ (~reqs[r].has_place_ids \/ Len(reqs[r].place_ids) < 2) )
         => reqs[r].status \in {400, 422}

\* C9: no two user documents share an email, and a signup that inserted no
\* user was refused.
C9_EmailsUnique ==
    /\ \A i, j \in 1..Len(users) : i # j => users[i].email # users[j].email
    /\ \A r \in Slots :
         (Done(r) /\ reqs[r].kind = "signup" /\ ~reqs[r].wrote)
         => reqs[r].status \in {400, 409}

\* C10: a request to a user-data endpoint that carries no or an invalid
\* bearer credential is rejected (no 200 or 201 answer) and writes nothing.
C10_CredentialRequired ==
    \A r \in Slots :
        ( /\ Done(r)
          /\ reqs[r].kind \in {"create_route", "list_routes", "delete_route",
                               "profile", "update_preferences", "visit_place"}
          /\ reqs[r].cred \in {"none", "invalid"} )
        => (reqs[r].status \notin {HTTP_200, HTTP_201} /\ ~reqs[r].wrote)

\* The token fails verification: it is no JWT, its signature does not
\* verify, it has expired, it has no subject, or (the store being reachable)
\* its subject is the id of no user.
TokenFails(req) ==
    \/ req.token.form # "jwt"
    \/ req.token.sig # "ours"
    \/ req.token.exp = "past"
    \/ req.token.sub = "none"
    \/ /\ req.db
       /\ \/ ~UserIdIsValid(req.token.sub)
          \/ UserIdOf(req.token.sub) \notin 1..Len(users)

\* C11: a GET /auth/me whose token is malformed, tampered, expired, without
\* subject or with the subject of no user never reaches the handler body, and
\* is answered 401 "Could not validate credentials" without a write.
C11_TokenFailsClosed ==
    \A r \in Slots :
        (reqs[r].kind = "me" /\ reqs[r].token # NoToken /\ TokenFails(reqs[r]))
        => /\ reqs[r].pc # "body"
           /\ Done(r) => /\ reqs[r].status = HTTP_401
                          /\ reqs[r].detail = CREDENTIALS_DETAIL
                          /\ reqs[r].user.id = 0
                          /\ ~reqs[r].wrote

\* C11 witness: with a user in the store, a correctly signed, unexpired
\* token whose subject is the id of no user has been answered 401.
C11_Witness ==
    \E r \in Slots :
        /\ Done(r)
        /\ reqs[r].kind = "me"
        /\ reqs[r].token.sig = "ours"
        /\ reqs[r].token.exp = "future"
        /\ reqs[r].token.sub = "2"
        /\ reqs[r].db
        /\ Len(users) = 1
        /\ reqs[r].status = HTTP_401

\* The stored hash is a hash of the password.
IsPasswordOf(plain_password, hashed_password) ==
    hashed_password.scheme = "argon2" /\ hashed_password.secret = plain_password

\* C12: a login with an email of no account and a login with an existing
\* email and a wrong password are both answered 401 "Invalid email or
\* password", and neither writes.
C12_LoginFailuresAlike ==
    \A r \in Slots :
        ( /\ Done(r)
          /\ reqs[r].kind = "login"
          /\ \A i \in UsersByEmail(reqs[r].email) :
                ~IsPasswordOf(reqs[r].password, users[i].password_hash) )
        => /\ reqs[r].status = HTTP_401
           /\ reqs[r].detail = LOGIN_DETAIL
           /\ ~reqs[r].wrote

\* A call of generate_recommendations that has run.
Recommended == call.fn = "generate_recommendations" /\ call.pc # "start"

PlaceByKey(key) ==
    CHOOSE p \in Range(CatalogPlaces) : p.key = key

WithinBudget(place) ==
    /\ place.walking_time <= call.query.time_available
    /\ place.price_level <= call.query.price_level

\* C13: no place whose walking time or price level exceeds the query's is
\* scored or returned.
C13_OverBudgetNeverReturned ==
    Recommended =>
        /\ \A k \in 1..Len(call.result) : WithinBudget(PlaceByKey(call.result[k]))
        /\ \A k \in 1..Len(call.scored) : WithinBudget(PlaceByKey(call.scored[k].key))

\* C13 witness: places were returned while the catalog held a place over
\* the time budget that scores higher than every returned one.
C13_Witness ==
    /\ Recommended
    /\ Len(call.result) >= 2
    /\ \E i \in 1..Len(call.catalog) :
         /\ call.catalog[i].walking_time > call.query.time_available
         /\ \A k \in 1..Len(call.scored) :
              ScorePlace(call.catalog[i], call.query).score > call.scored[k].score

\* Positions of the catalog that pass the filter, and the rank of one of
\* them: how many passing places go before it (higher score, or the same
\* score and earlier in the catalog).
Passing == {k \in 1..Len(call.catalog) : WithinBudget(call.catalog[k])}

ScoreAt(k) == ScorePlace(call.catalog[k], call.query).score

RankAt(k) ==
    Cardinality({j \in Passing :
                   \/ ScoreAt(j) > ScoreAt(k)
                   \/ ScoreAt(j) = ScoreAt(k) /\ j < k})

\* C14: the call returns the first min(6, n) of the n passing places by
\* score descending, equal scores in catalog order.
C14_TopSixByScore ==
    Recommended =>
        /\ call.pc = "returned"
        /\ Len(call.result) =
              (IF Cardinality(Passing) < 6 THEN Cardinality(Passing) ELSE 6)
        /\ \A n \in 1..Len(call.result) :
              \E k \in Passing :
                  RankAt(k) = n - 1 /\ call.result[n] = call.catalog[k].key

\* The mood contribution as the specification states it.
LowerVibes(place) == {LowerWord(place.vibe[i]) : i \in 1..Len(place.vibe)}

SynonymMatches(place, mood) ==
    {i \in 1..Len(place.vibe) :
       LowerWord(place.vibe[i]) \in Range(get_mood_synonyms(LowerWord(mood)))}

C16_InterestContribution ==
    Recommended =>
        \A k \in 1..Len(call.scored) :
            LET place == call.places_list[k]
                interests == call.query.interests
                tags == {LowerChars(place.tags[i]) : i \in 1..Len(place.tags)}
            IN call.scored[k].interests =
                 Cardinality({j \in 1..Len(interests) :
                                LowerChars(interests[j]) \in tags})
                 + Cardinality({j \in 1..Len(interests) :
                                  IsSubstring(LowerChars(interests[j]),
                                              LowerChars(place.category))})

\* C16 witness: the one interest "art" is a tag of the place and a substring
\* of its category "Arts": +2.
C16_Witness ==
    /\ Recommended
    /\ call.query.interests = <<w_art>>
    /\ \E k \in 1..Len(call.scored) :
         /\ call.places_list[k].category = w_Arts
         /\ w_art \in Range(call.places_list[k].tags)
         /\ call.scored[k].interests = 2

\* C17: the rating increment of every scored place is 2 for a rating of at
\* least 4.8, 1 for a rating of at least 4.5 and below 4.8, else 0.
C17_RatingContribution ==
    Recommended =>
        \A k \in 1..Len(call.scored) :
            LET rating == call.places_list[k].rating
            IN call.scored[k].rating =
                 (CASE rating >= 48 -> 2
                    [] rating >= 45 /\ rating < 48 -> 1
                    [] OTHER -> 0)

\* C17 witness: a place rated 4.8 got +2 and a place rated 4.5 got +1 in
\* the same call.
C17_Witness ==
    /\ Recommended
    /\ \E k \in 1..Len(call.scored) :
         call.places_list[k].rating = 48 /\ call.scored[k].rating = 2
    /\ \E k \in 1..Len(call.scored) :
         call.places_list[k].rating = 45 /\ call.scored[k].rating = 1

Returned(fn) == call.fn = fn /\ call.pc = "returned"

\* C18: calculate_street_cred returns 10 x (entries of visited_places)
\* + 25 x routes_completed, and is additive in both arguments.
C18_StreetCredLinear ==
    Returned("calculate_street_cred") =>
        /\ call.result = 10 * Len(call.visited_places) + 25 * call.routes_completed
        /\ \A more \in VisitedLists, r \in 0..MaxCompleted :
              calculate_street_cred(call.visited_places \o more,
                                    call.routes_completed + r)
              = call.result + calculate_street_cred(more, r)

\* C18 witness: 3 visited places and 2 routes gave 80.
C18_Witness ==
    /\ Returned("calculate_street_cred")
    /\ Len(call.visited_places) = 3
    /\ call.routes_completed = 2
    /\ call.result = 80

\* C19: the level of a street_cred >= 0 is the n >= 1 with
\* 100 (n - 1) <= street_cred < 100 n; 0 gives 1, 100 gives 2, 250 gives 3.
C19_LevelEveryHundred ==
    Returned("calculate_level") =>
        /\ call.result >= 1
        /\ 100 * (call.result - 1) <= call.street_cred
        /\ call.street_cred < 100 * call.result
        /\ call.street_cred = 0 => call.result = 1
        /\ call.street_cred = 100 => call.result = 2
        /\ call.street_cred = 250 => call.result = 3

\* C19 witness: the level of 250 was computed, and is 3.
C19_Witness ==
    /\ Returned("calculate_level")
    /\ call.street_cred = 250
    /\ call.result = 3

\* C20: the title of a level >= 1 follows the bracket table, the last
\* bracket being open-ended.
C20_LevelTitleTable ==
    Returned("get_level_title") =>
        call.result =
            (CASE call.level = 1 -> "Novice Explorer"
               [] call.level \in 2..3 -> "Local Wanderer"
               [] call.level \in 4..6 -> "City Connoisseur"
               [] call.level \in 7..10 -> "Urban Legend"
               [] call.level \in 11..15 -> "Master Navigator"
               [] call.level \in 16..20 -> "City Sage"
               [] call.level >= 21 -> "Legendary Explorer")

\* C20 witness: level 21 got the title of the open-ended bracket.
C20_Witness ==
    /\ Returned("get_level_title")
    /\ call.level = 21
    /\ call.result = "Legendary Explorer"


StartsWith(text, prefix) ==
    Len(text) >= Len(prefix) /\ SubSeq(text, 1, Len(prefix)) = prefix

EndsWith(text, suffix) ==
    /\ Len(text) >= Len(suffix)
    /\ SubSeq(text, Len(text) - Len(suffix) + 1, Len(text)) = suffix

\* The sentences of a text: its pieces between the separators " " that
\* follow a full stop and precede a capital opening word.
SentenceOpeners == {TEMPLATE.visit, TEMPLATE.begin, TEMPLATE.from_there, TEMPLATE.finally}

SentenceStarts(text) ==
    { i \in 1..Len(text) :
        /\ \E o \in SentenceOpeners : StartsWith(SubSeq(text, i, Len(text)), o)
        /\ i > 1 => SubSeq(text, i - 2, i - 1) = <<".", " ">> }

\* C21: no place gives the placeholder; one place gives one sentence with
\* its name and summary; n >= 2 places give n sentences in input order, an
\* opening one, a connecting one per interior place and a closing one, each
\* naming its place.
C21_NarrativeRoles ==
    Returned("generate_route_narrative") =>
        LET places == call.places
            n == Len(places)
            parts == call.narrative_parts
        IN  /\ n = 0 => call.result = TEMPLATE.placeholder
            /\ n = 1 =>
                 /\ StartsWith(call.result, TEMPLATE.visit \o places[1].name)
                 /\ EndsWith(call.result, TEMPLATE.dot)
                 /\ places[1].has_ai_summary =>
                      IsSubstring(places[1].ai_summary, call.result)
                 /\ Cardinality(SentenceStarts(call.result)) = 1
            /\ n >= 2 =>
                 /\ Len(parts) = n
                 /\ call.result = Join(parts)
                 /\ Cardinality(SentenceStarts(call.result)) = n
                 /\ StartsWith(parts[1], TEMPLATE.begin \o places[1].name)
                 /\ StartsWith(parts[n], TEMPLATE.finally \o places[n].name)
                 /\ \A i \in 2..(n - 1) :
                      StartsWith(parts[i], TEMPLATE.from_there \o places[i].name)
                 /\ \A i \in 1..n : EndsWith(parts[i], TEMPLATE.dot)

\* C21 witness: a narrative of four places, two of them interior.
C21_Witness ==
    /\ Returned("generate_route_narrative")
    /\ Len(call.places) = 4
    /\ Len(call.narrative_parts) = 4
    /\ call.places[2].name # call.places[3].name

\* The summary an interior sentence embeds: what stands between the name
\* and the final full stop.
EmbeddedSummary(part, place) ==
    SubSeq(part, Len(TEMPLATE.from_there) + Len(place.name) + Len(TEMPLATE.comma) + 1,
           Len(part) - 1)

\* C22: an interior summary of more than 100 characters is embedded as its
\* first 97 characters and "...", at most 100 characters in all; one of at
\* most 100 characters is embedded unchanged.
C22_InteriorSummaryTruncated ==
    Returned("generate_route_narrative") =>
        \A i \in 2..(Len(call.places) - 1) :
            LET place == call.places[i]
                embedded == EmbeddedSummary(call.narrative_parts[i], place)
            IN  place.has_ai_summary =>
                  IF Len(place.ai_summary) > 100
                  THEN /\ Len(embedded) <= 100
                       /\ embedded = SubSeq(place.ai_summary, 1, 97)
                                        \o <<".", ".", ".">>
                  ELSE embedded = place.ai_summary

\* C22 witness: an interior place with a summary of 101 characters and one
\* with a summary of exactly 100.
C22_Witness ==
    /\ Returned("generate_route_narrative")
    /\ \E i \in 2..(Len(call.places) - 1) :
         Len(call.places[i].ai_summary) = 101
    /\ \E i \in 2..(Len(call.places) - 1) :
         Len(call.places[i].ai_summary) = 100

\* C23: the sentence for a single place with an empty summary carries the
\* fallback text, never an empty summary.
C23_EmptySummaryFallsBack ==
    ( /\ Returned("generate_route_narrative")
      /\ Len(call.places) = 1
      /\ call.places[1].ai_summary = <<>> )
    => call.result = TEMPLATE.visit \o call.places[1].name \o TEMPLATE.where
                        \o DEFAULT.adventure_awaits \o TEMPLATE.dot


RetryEnded == call.pc \in {"returned", "raised"}

LastOutcome == call.outcomes[Len(call.outcomes)]

NonEmptyText(outcome) == outcome.kind = "text" /\ outcome.text # ""

\* What C24 says of every state of the loop, but for the way it may end.
RetryBounded ==
    /\ Len(call.outcomes) <= 3
    /\ Len(call.delays) <= 2
    /\ \A k \in 1..Len(call.delays) : call.delays[k] = (IF k = 1 THEN 1 ELSE 2)
    /\ Len(call.delays) =
          (IF RetryEnded THEN Len(call.outcomes) - 1 ELSE Len(call.outcomes))
    /\ call.pc = "returned" =>
          /\ call.result = LastOutcome.text
          /\ NonEmptyText(LastOutcome)
          /\ \A k \in 1..(Len(call.outcomes) - 1) :
                ~NonEmptyText(call.outcomes[k])

\* C24 as stated: at most 3 calls, a wait of 1 s then 2 s before each
\* retry, and the loop ends, by returning the first non-empty text or by
\* raising once the 3 attempts are used up.
C24_RetryEndsExhausted ==
    /\ [](RetryBounded /\ (call.pc = "raised" => Len(call.outcomes) = 3))
    /\ <>RetryEnded

\* C24 amended: as above, but the loop may also end by raising at a
\* failure whose message holds a safety word, before the attempts are used
\* up.
C24_RetryBoundedAndEnds ==
    /\ [](RetryBounded
          /\ (call.pc = "raised" =>
                \/ Len(call.outcomes) = 3
                \/ IsSafetyError(AsError(LastOutcome))))
    /\ <>RetryEnded

\* C24 witness: three calls with waits of 1 s and 2 s, the third giving
\* the text that is returned.
C24_Witness ==
    /\ call.fn = "_generate_with_retry"
    /\ call.pc = "returned"
    /\ Len(call.outcomes) = 3
    /\ call.delays = <<1, 2>>

\* C30: a failure whose message holds a safety word is never retried: it
\* is the last call, and the call ends with the safety exception.
C30_SafetyNeverRetried ==
    call.fn = "_generate_with_retry" =>
        \A k \in 1..Len(call.outcomes) :
            ( /\ call.outcomes[k].kind = "error"
              /\ IsSafetyError(call.outcomes[k]) )
            => /\ k = Len(call.outcomes)
               /\ call.pc = "raised"
               /\ call.raised = "blocked"


AiRouteEnded == call.fn = "generate_ai_route_demo" /\ call.pc = "returned"

\* C25: an initial response without name, stops or descriptions, or whose
\* stops are not a list of at least 2 entries, ends the request with no
\* route and no lookup; a refinement response without narrative, or with
\* one of fewer than 50 characters, is not used: the narrative and the name
\* are the fallback ones.
C25_ResponsesValidated ==
    call.fn = "generate_ai_route_demo" =>
        /\ ( /\ call.initial_seen
             /\ \/ ~call.initial_raw.is_dict
                \/ ~call.initial_raw.has_name
                \/ ~call.initial_raw.has_stops
                \/ ~call.initial_raw.has_descriptions
                \/ ~call.initial_raw.stops_is_list
                \/ Len(call.initial_raw.stops) < 2 )
           => /\ call.pc = "returned"
              /\ ~call.response.success
              /\ call.response.route = "none"
              /\ call.lookups = <<>>
        /\ ( /\ call.refine_seen
             /\ \/ ~call.refined_raw.is_dict
                \/ ~call.refined_raw.has_narrative
                \/ call.refined_raw.narrative_len < 50 )
           => /\ call.narrative = "fallback"
              /\ call.refined_name = "initial"
              /\ call.response.success =>
                    call.response.route.narrative = "fallback"

\* C25 witness: a refinement with a narrative of 49 characters was turned
\* down, after an initial response with 2 stops was accepted.
C25_Witness ==
    /\ AiRouteEnded
    /\ call.refine_seen
    /\ Len(call.initial_raw.stops) = 2
    /\ call.refined_raw.is_dict
    /\ call.refined_raw.has_narrative
    /\ call.refined_raw.narrative_is_str
    /\ call.refined_raw.narrative_len = 49
    /\ call.narrative = "fallback"

\* C26: the handler always returns a response; if the refinement failed
\* and at least one stop was resolved, the request succeeds with the
\* fallback narrative and the initial name; if no stop was resolved, it
\* fails with no route.
C26_UpstreamFailureRecoverable ==
    AiRouteEnded =>
        /\ ( call.refine_raised /\ call.enriched_places # <<>> )
           => /\ call.response.success
              /\ call.response.route.narrative = "fallback"
              /\ call.response.route.name = "initial"
        /\ ( call.lookups # <<>> /\ call.enriched_places = <<>> )
           => /\ ~call.response.success
              /\ call.response.route = "none"


\* C27: a request handled without a database handle is answered 503 and
\* writes nothing.  (A body that fails validation is answered 422 before
\* the handler runs.)
C27_UnavailableReported ==
    \A r \in Slots :
        (Done(r) /\ ~reqs[r].db /\ reqs[r].status # HTTP_422)
        => /\ reqs[r].status = HTTP_503
           /\ ~reqs[r].wrote
           /\ users = <<>>
           /\ routes = {}

\* The routes a delete request addresses, whatever the type of their id.
Addressed(req) == {d \in routes : d.id = req.route_id}

\* C28: a delete request without a valid credential, or for a route of
\* another user, is answered 401 and deletes nothing; the owner's delete
\* goes on to remove the route addressed, and only that one.
C28_DeleteOnlyByOwner ==
    [][\A r \in Slots :
         delete_route(r) =>
           LET req == reqs[r]
               refused == \/ req.cred # "valid"
                          \/ \E d \in Addressed(req) : d.user_id # req.user.id
               owned == /\ req.cred = "valid"
                        /\ Addressed(req) # {}
                        /\ \A d \in Addressed(req) : d.user_id = req.user.id
           IN  /\ refused => reqs'[r].status = HTTP_401 /\ routes' = routes
               /\ owned => \/ reqs'[r].pc = "delete" /\ routes' = routes
                           \/ /\ reqs'[r].status = HTTP_200
                              /\ routes' = routes \ Addressed(req)]_vars

\* C29: visit-place with a well-formed id of no place in the catalog is
\* answered 404 and leaves the users as they are.
C29_AbsentPlaceNotFound ==
    [][\A r \in Slots :
         ( /\ visit_place(r)
           /\ ObjectIdIsValid(reqs[r].placeId)
           /\ FindPlace("ObjectId", ObjectIdOf(reqs[r].placeId)) = {} )
         => /\ reqs'[r].status = HTTP_404
            /\ users' = users]_vars

====
